---- MODULE Spec2Model ----
(***************************************************************************)
(* Tines MCP server (src/main.py): the request executor make_request, the  *)
(* per-operation parameter mapping of the tool wrappers, and the two       *)
(* multi-request workflows create_story_draft and connect_actions, run by  *)
(* concurrently dispatched tasks against a remote service modelled as a    *)
(* black box that answers each request with one of its possible responses. *)
(*                                                                         *)
(* Python values: an object is None (the empty set) or Some(v) (the        *)
(* singleton of its value); a dict is a function on its keys (strings); a  *)
(* list is a sequence.                                                     *)
(***************************************************************************)
EXTENDS Integers, Sequences, FiniteSets, TLC

VARIABLES
    pc,         \* per task: where the tool invocation it runs stands
    tool,       \* per task: the tool it runs, or ran last
    args,       \* per task: the arguments of the invocation (a dict)
    loc,        \* per task: the handler's local (target_action / latest_draft)
    reqs,       \* per task: the requests this invocation issued, with outcomes
    result,     \* per task: what the invocation returned or raised
    actions,    \* remote: each target action's stored configuration (a dict)
    hist,       \* history: the source_ids writes the remote applied, in order
    seen,       \* history, per task: Len(hist) when its GET was answered
    ncalls,     \* invocations dispatched so far
    BASE_URL    \* configuration: the base URL read from the environment

vars ==
    <<pc, tool, args, loc, reqs, result, actions, hist, seen, ncalls, BASE_URL>>

----------------------------------------------------------------------------
(* Bounds of the model *)

MaxCalls == 2
MaxActionId == 2
MaxSlashes == 2

\* two concurrent callers of the tools
Tasks == {1, 2}
SourceIds == 1..MaxActionId
TargetIds == {10}
StoryIds == {42}
DraftIds == {0, 7}

----------------------------------------------------------------------------
(* Python values *)

None == {}
Some(v) == {v}
Val(x) == CHOOSE v \in x : TRUE
EmptyDict == <<>>

\* `if x:` on an Optional[int], Optional[str], Optional[dict], Optional[list]
TruthyInt(x) == x # None /\ x # Some(0)
TruthyStr(x) == x # None /\ x # Some("")
TruthyDict(x) == x # None /\ x # Some(EmptyDict)
TruthyList(x) == x # None /\ x # Some(<<>>)

\* d.get(k, default)
DictGet(d, k, default) == IF k \in DOMAIN d THEN d[k] ELSE default

\* x in lst
Contains(lst, x) == \E i \in 1..Len(lst) : lst[i] = x

Count(lst, x) == Cardinality({i \in 1..Len(lst) : lst[i] = x})

----------------------------------------------------------------------------
(* The remote service's answers to one request *)

\* no response was obtained (connection, DNS, TLS failure)
NoResponse == [conn |-> FALSE, status |-> 0, body |-> None]
\* a response with a status code and a body (None: the body is empty)
Response(status, body) == [conn |-> TRUE, status |-> status, body |-> body]

\* the answers to a request whose success body is json
Answers(json) ==
    <<Response(200, Some(json)), Response(204, None), Response(404, None),
      NoResponse>>

AnswerKinds == 1..4

----------------------------------------------------------------------------
(* make_request: src/main.py 54-103 *)

Returned(v) == [raised |-> "", code |-> 0, value |-> Some(v)]
Raised(exc, code) == [raised |-> exc, code |-> code, value |-> None]

\* make_request without raise_for_status
make_request_unchecked(response) ==
    IF ~response.conn THEN Raised("ConnectionError", 0)
    ELSE IF response.body = None THEN Raised("JSONDecodeError", 0)
    ELSE Returned(Val(response.body))

\* make_request returning {} when no response comes
make_request_swallow(response) ==
    IF ~response.conn THEN Returned(EmptyDict)
    ELSE IF response.status >= 400 /\ response.status < 600
         THEN Raised("HTTPError", response.status)
    ELSE IF response.body = None THEN Raised("JSONDecodeError", 0)
    ELSE Returned(Val(response.body))

\* requests.request raises when no response comes; raise_for_status raises
\* HTTPError for a 4xx/5xx status; response.json() raises on an empty body.
make_request(response) ==
    IF ~response.conn THEN Raised("ConnectionError", 0)
    ELSE IF response.status >= 400 /\ response.status < 600
         THEN Raised("HTTPError", response.status)
    ELSE IF response.body = None THEN Raised("JSONDecodeError", 0)
    ELSE Returned(Val(response.body))

\* str.rstrip(c) and str.lstrip(c): every trailing (leading) c is removed
RECURSIVE rstrip(_, _)
rstrip(s, c) ==
    IF s # <<>> /\ s[Len(s)] = c THEN rstrip(SubSeq(s, 1, Len(s) - 1), c)
    ELSE s

RECURSIVE lstrip(_, _)
lstrip(s, c) ==
    IF s # <<>> /\ s[1] = c THEN lstrip(SubSeq(s, 2, Len(s)), c)
    ELSE s

\* url = f"{BASE_URL.rstrip('/')}/{endpoint.lstrip('/')}"
url(base, endpoint) == rstrip(base, "/") \o <<"/">> \o lstrip(endpoint, "/")

\* one issued request, as the log of an invocation keeps it
Request(method, endpoint, data, params, response) ==
    [method |-> method, endpoint |-> endpoint, data |-> data,
     params |-> params, answer |-> response,
     ok |-> make_request(response).raised = "",
     value |-> make_request(response).value]

NoResult == [status |-> "none", exc |-> "", code |-> 0, value |-> None]
Success(v) == [status |-> "ok", exc |-> "", code |-> 0, value |-> Some(v)]
\* an exception raised by make_request propagates unchanged
Propagate_wrapped(out) ==
    [status |-> "error", exc |-> "RuntimeError", code |-> 0, value |-> None]
Propagate(out) ==
    [status |-> "error", exc |-> out.raised, code |-> out.code, value |-> None]
Failure(exc) == [status |-> "error", exc |-> exc, code |-> 0, value |-> None]

----------------------------------------------------------------------------
(* connect_actions: src/main.py 840-876 *)

connect_actions_endpoint(a) == "actions/" \o ToString(Val(a.target_action_id))

\* current_sources: the fetched list, the source id appended if not in it
current_sources_blind(target_action, source_action_id) ==
    Append(Val(DictGet(target_action, "sources", Some(<<>>))),
           Val(source_action_id))
current_sources_only(target_action, source_action_id) ==
    <<Val(source_action_id)>>
current_sources_front(target_action, source_action_id) ==
    LET cur == Val(DictGet(target_action, "sources", Some(<<>>)))
    IN  IF ~Contains(cur, Val(source_action_id))
        THEN <<Val(source_action_id)>> \o cur
        ELSE cur
current_sources(target_action, source_action_id) ==
    LET cur == Val(DictGet(target_action, "sources", Some(<<>>)))
    IN  IF ~Contains(cur, Val(source_action_id))
        THEN Append(cur, Val(source_action_id))
        ELSE cur

connect_actions_data(target_action, a) ==
    ("source_ids" :> Some(current_sources(target_action, a.source_action_id)))
    @@ (IF TruthyInt(a.draft_id) THEN "draft_id" :> a.draft_id ELSE EmptyDict)

\* the remote applies a PUT of source_ids to the action it stores
RemoteUpdateAction(action, data) ==
    ("sources" :> data.source_ids) @@ action

----------------------------------------------------------------------------
(* create_story_draft: src/main.py 904-933 *)

story_endpoint(a) == "stories/" \o ToString(Val(a.story_id))
\* list_story_drafts: src/main.py 879-888
list_story_drafts_endpoint(a) ==
    "stories/" \o ToString(Val(a.story_id)) \o "/drafts"

add_tag_data == "add_tag_names" :> Some(<<"draft-creation">>)

remove_tag_data_unscoped(latest_draft) ==
    "remove_tag_names" :> Some(<<"draft-creation">>)
remove_tag_data(latest_draft) ==
    ("remove_tag_names" :> Some(<<"draft-creation">>))
    @@ ("draft_id" :> latest_draft["id"])

\* `if drafts.get("drafts"):`
has_drafts(drafts) == TruthyList(DictGet(drafts, "drafts", None))

Draft(id) == ("id" :> Some(id)) @@ ("name" :> Some("draft"))
DraftNoId == "name" :> Some("draft")

\* what the remote may answer to the draft listing of a story
DraftListings ==
    <<EmptyDict,
      "drafts" :> Some(<<>>),
      "drafts" :> Some(<<Draft(7)>>),
      "drafts" :> Some(<<Draft(8), Draft(7)>>),
      "drafts" :> Some(<<DraftNoId>>)>>

\* after the listing is returned: take drafts["drafts"][0] and go on to the
\* removal (whose data reads latest_draft["id"]), or raise ValueError
after_list_synthetic(drafts) ==
    IF has_drafts(drafts)
    THEN [next |-> "cd_remove", latest |-> Val(drafts["drafts"])[1],
          result |-> NoResult]
    ELSE [next |-> "done", latest |-> Draft(0), result |-> Success(Draft(0))]
after_list(drafts) ==
    IF has_drafts(drafts)
    THEN LET latest_draft == Val(drafts["drafts"])[1]
         IN  IF "id" \in DOMAIN latest_draft
             THEN [next |-> "cd_remove", latest |-> latest_draft,
                   result |-> NoResult]
             ELSE [next |-> "done", latest |-> latest_draft,
                   result |-> Failure("KeyError")]
    ELSE [next |-> "done", latest |-> EmptyDict,
          result |-> Failure("ValueError")]

\* after the removal is answered: return latest_draft, or the error re-raised
after_remove_swallow(latest_draft, out) == Success(latest_draft)
after_remove(latest_draft, out) ==
    IF out.raised = "" THEN Success(latest_draft) ELSE Propagate(out)

----------------------------------------------------------------------------
(* Parameter mapping: how a wrapper binds its parameters and builds the    *)
(* body or query of its request                                            *)

MaxSupplied == 2

\* the dicts that give values to at most n of the keys, each from opt[key]
RECURSIVE ArgsOver(_, _, _)
ArgsOver(keys, opt, n) ==
    IF keys = {} \/ n = 0 THEN {EmptyDict}
    ELSE LET k == CHOOSE x \in keys : TRUE
         IN  ArgsOver(keys \ {k}, opt, n)
             \cup {(k :> v) @@ r : v \in opt[k],
                                   r \in ArgsOver(keys \ {k}, opt, n - 1)}

\* the calls of a tool: its required arguments, and at most MaxSupplied of
\* its optional ones
Calls(required, opt) ==
    {r @@ o : r \in required, o \in ArgsOver(DOMAIN opt, opt, MaxSupplied)}

\* Python's binding: a parameter the caller does not pass takes its default
Bind(a, defaults) ==
    [k \in DOMAIN a \cup DOMAIN defaults |->
        IF k \in DOMAIN a THEN a[k] ELSE defaults[k]]

\* `if x is not None: d[k] = x`
IfSet_always(x, k) == k :> x
IfSet(x, k) == IF x # None THEN k :> x ELSE EmptyDict

\* `if x: d[k] = x`, by the type of x
IfTruthyInt(x, k) == IF TruthyInt(x) THEN k :> x ELSE EmptyDict
IfTruthyStr(x, k) == IF TruthyStr(x) THEN k :> x ELSE EmptyDict
IfTruthyDict(x, k) == IF TruthyDict(x) THEN k :> x ELSE EmptyDict

Min(a, b) == IF a <= b THEN a ELSE b

\* what a wrapper hands to make_request
Descriptor(method, endpoint, data, params) ==
    [method |-> method, endpoint |-> endpoint, data |-> data, params |-> params]

\* values callers pass
Ints == {Some(0), Some(7)}
Strs == {Some(""), Some("x")}
Bools == {Some(FALSE), Some(TRUE)}
StrLists == {Some(<<>>), Some(<<"t">>)}
IntLists == {Some(<<>>), Some(<<3>>)}
Dicts == {Some(EmptyDict), Some("k" :> Some("v"))}
Positions == {Some(EmptyDict), Some(("x" :> Some(5)) @@ ("y" :> Some(6)))}
PerPages == {Some(0), Some(20), Some(500), Some(501), Some(1000)}

----------------------------------------------------------------------------
(* list_stories and its presets: src/main.py 106-151, 323-382 *)

MaxPerPage == 500

\* if per_page is not None: params['per_page'] = min(per_page, 500)
per_page_param_unclamped(per_page) == IfSet(per_page, "per_page")
per_page_param(per_page) ==
    IF per_page # None
    THEN "per_page" :> Some(Min(Val(per_page), MaxPerPage))
    ELSE EmptyDict

list_stories_defaults ==
    [team_id |-> None, folder_id |-> None, per_page |-> None, page |-> None,
     tags |-> None, search |-> None, filter |-> None, order |-> None]

list_stories_calls ==
    Calls({EmptyDict},
          [team_id |-> Ints, folder_id |-> Ints, per_page |-> PerPages,
           page |-> Ints, tags |-> Strs, search |-> Strs, filter |-> Strs,
           order |-> Strs])

list_stories(b) ==
    Descriptor("GET", "stories", None,
        Some(IfSet(b.team_id, "team_id") @@ IfSet(b.folder_id, "folder_id")
             @@ per_page_param(b.per_page) @@ IfSet(b.page, "page")
             @@ IfTruthyStr(b.tags, "tags") @@ IfTruthyStr(b.search, "search")
             @@ IfTruthyStr(b.filter, "filter")
             @@ IfTruthyStr(b.order, "order")))

DefaultPerPage == 20

preset_defaults == [team_id |-> None, per_page |-> Some(DefaultPerPage)]
preset_optional == [team_id |-> Ints, per_page |-> PerPages \cup {None}]

search_stories_calls == Calls({[query |-> q] : q \in Strs}, preset_optional)
search_stories(b) ==
    list_stories(Bind([team_id |-> b.team_id, search |-> b.query,
                       per_page |-> b.per_page], list_stories_defaults))

get_high_priority_stories_calls == Calls({EmptyDict}, preset_optional)
get_high_priority_stories(b) ==
    list_stories(Bind([team_id |-> b.team_id, filter |-> Some("HIGH_PRIORITY"),
                       per_page |-> b.per_page], list_stories_defaults))

get_disabled_stories_calls == Calls({EmptyDict}, preset_optional)
get_disabled_stories(b) ==
    list_stories(Bind([team_id |-> b.team_id, filter |-> Some("DISABLED"),
                       per_page |-> b.per_page], list_stories_defaults))

----------------------------------------------------------------------------
(* get_story, create_story, update_story: src/main.py 154-320 *)

get_story_defaults == [story_mode |-> None, draft_id |-> None]
get_story_calls ==
    Calls({[story_id |-> Some(s)] : s \in StoryIds},
          [story_mode |-> Strs, draft_id |-> Ints])
get_story(b) ==
    Descriptor("GET", "stories/" \o ToString(Val(b.story_id)), None,
        Some(IfTruthyStr(b.story_mode, "story_mode")
             @@ IfSet(b.draft_id, "draft_id")))

create_story_defaults ==
    [name |-> None, description |-> None, keep_events_for |-> None,
     folder_id |-> None, tags |-> None, disabled |-> None, priority |-> None]
create_story_calls ==
    Calls({[team_id |-> t] : t \in Ints},
          [name |-> Strs, description |-> Strs, keep_events_for |-> Ints,
           folder_id |-> Ints, tags |-> StrLists, disabled |-> Bools,
           priority |-> Bools])
create_story(b) ==
    Descriptor("POST", "stories",
        Some(("team_id" :> b.team_id)
             @@ IfSet(b.name, "name") @@ IfSet(b.description, "description")
             @@ IfSet(b.keep_events_for, "keep_events_for")
             @@ IfSet(b.folder_id, "folder_id") @@ IfSet(b.tags, "tags")
             @@ IfSet(b.disabled, "disabled") @@ IfSet(b.priority, "priority")),
        None)

update_story_optional ==
    [name |-> Strs, description |-> Strs, add_tag_names |-> StrLists,
     remove_tag_names |-> StrLists, keep_events_for |-> Ints,
     disabled |-> Bools, locked |-> Bools, priority |-> Bools,
     send_to_story_access_source |-> Strs, send_to_story_access |-> Strs,
     shared_team_slugs |-> StrLists,
     send_to_story_skill_use_requires_confirmation |-> Bools,
     webhook_api_enabled |-> Bools, team_id |-> Ints, folder_id |-> Ints,
     change_control_enabled |-> Bools, draft_id |-> Ints,
     monitor_failures |-> Bools, entry_action_id |-> Ints,
     exit_action_ids |-> IntLists]
update_story_defaults == [k \in DOMAIN update_story_optional |-> None]
update_story_calls ==
    Calls({[story_id |-> Some(s)] : s \in StoryIds}, update_story_optional)

\* if disabled is not None: update_data['disabled'] = disabled
update_story_disabled_truthy(disabled) ==
    IF disabled = Some(TRUE) THEN "disabled" :> disabled ELSE EmptyDict
update_story_disabled(disabled) == IfSet(disabled, "disabled")

update_story(b) ==
    Descriptor("PUT", "stories/" \o ToString(Val(b.story_id)),
        Some(IfSet(b.name, "name") @@ IfSet(b.description, "description")
             @@ IfSet(b.add_tag_names, "add_tag_names")
             @@ IfSet(b.remove_tag_names, "remove_tag_names")
             @@ IfSet(b.keep_events_for, "keep_events_for")
             @@ update_story_disabled(b.disabled)
             @@ IfSet(b.locked, "locked") @@ IfSet(b.priority, "priority")
             @@ IfSet(b.send_to_story_access_source,
                      "send_to_story_access_source")
             @@ IfSet(b.send_to_story_access, "send_to_story_access")
             @@ IfSet(b.shared_team_slugs, "shared_team_slugs")
             @@ IfSet(b.send_to_story_skill_use_requires_confirmation,
                      "send_to_story_skill_use_requires_confirmation")
             @@ IfSet(b.webhook_api_enabled, "webhook_api_enabled")
             @@ IfSet(b.team_id, "team_id") @@ IfSet(b.folder_id, "folder_id")
             @@ IfSet(b.change_control_enabled, "change_control_enabled")
             @@ IfSet(b.draft_id, "draft_id")
             @@ IfSet(b.monitor_failures, "monitor_failures")
             @@ IfSet(b.entry_action_id, "entry_action_id")
             @@ IfSet(b.exit_action_ids, "exit_action_ids")),
        None)

----------------------------------------------------------------------------
(* Actions: src/main.py 387-837 *)

get_story_actions_defaults == [draft_id |-> None]
get_story_actions_calls ==
    Calls({[story_id |-> Some(s)] : s \in StoryIds}, [draft_id |-> Ints])
\* the query string is joined into the endpoint
get_story_actions(b) ==
    Descriptor("GET",
        "agents?story_id=" \o ToString(Val(b.story_id))
        \o (IF TruthyInt(b.draft_id)
            THEN "&draft_id=" \o ToString(Val(b.draft_id)) ELSE ""),
        None, None)

DefaultActionX == 100
DefaultActionY == 100
default_action_position ==
    ("x" :> Some(DefaultActionX)) @@ ("y" :> Some(DefaultActionY))

create_action_defaults ==
    [options |-> None, position |-> None, draft_id |-> None]
create_action_calls ==
    Calls({[story_id |-> Some(s), action_type |-> Some("Agents::WebhookAgent"),
            name |-> Some("n")] : s \in StoryIds},
          [options |-> Dicts, position |-> Positions, draft_id |-> Ints])

\* if position: data["position"] = position, else the default position
action_position(position) ==
    IF TruthyDict(position) THEN "position" :> position
    ELSE "position" :> Some(default_action_position)

create_action(b) ==
    Descriptor("POST", "actions",
        Some(("type" :> b.action_type) @@ ("name" :> b.name)
             @@ ("story_id" :> Some(ToString(Val(b.story_id))))
             @@ IfSet(b.draft_id, "draft_id")
             @@ IfTruthyDict(b.options, "options")
             @@ action_position(b.position)),
        None)

\* the required arguments every typed wrapper takes
typed_required ==
    {[story_id |-> Some(s), name |-> Some("n"), draft_id |-> d] :
        s \in StoryIds, d \in Ints}

\* the typed wrappers end in create_action(story_id, action_type, name,
\* options, position, draft_id)
typed_action(b, action_type, options) ==
    create_action([story_id |-> b.story_id, action_type |-> Some(action_type),
                   name |-> b.name, options |-> Some(options),
                   position |-> b.position, draft_id |-> b.draft_id])

DefaultMode == "message"
create_event_transform_action_defaults ==
    [mode |-> Some(DefaultMode), message |-> None, payload |-> None,
     position |-> None]
create_event_transform_action_calls ==
    Calls(typed_required,
          [mode |-> {Some(""), Some("merge")}, message |-> Strs, payload |-> Dicts,
           position |-> Positions])
create_event_transform_action(b) ==
    typed_action(b, "Agents::EventTransformationAgent",
        ("mode" :> b.mode) @@ IfTruthyStr(b.message, "message")
        @@ IfTruthyDict(b.payload, "payload"))

create_webhook_action_defaults == [secret |-> None, position |-> None]
create_webhook_action_calls ==
    Calls(typed_required, [secret |-> Strs, position |-> Positions])
create_webhook_action(b) ==
    typed_action(b, "Agents::WebhookAgent", IfTruthyStr(b.secret, "secret"))

DefaultContentType == "text/html"
email_required ==
    {r @@ [to |-> Some("a@b"), subject |-> Some("s"), body |-> Some("b")] :
        r \in typed_required}
create_email_action_defaults ==
    [from_email |-> None, cc |-> None, bcc |-> None,
     content_type |-> Some(DefaultContentType), position |-> None]
create_email_action_calls ==
    Calls(email_required,
          [from_email |-> Strs, cc |-> Strs, bcc |-> Strs,
           content_type |-> {Some(""), Some("text/plain")}, position |-> Positions])
create_email_action(b) ==
    typed_action(b, "Agents::EmailAgent",
        ("to" :> b.to) @@ ("subject" :> b.subject) @@ ("body" :> b.body)
        @@ ("content_type" :> b.content_type)
        @@ IfTruthyStr(b.from_email, "from") @@ IfTruthyStr(b.cc, "cc")
        @@ IfTruthyStr(b.bcc, "bcc"))

DefaultImapPort == 993
DefaultImapFolder == "INBOX"
imap_required ==
    {r @@ [host |-> Some("h"), username |-> Some("u"), password |-> Some("p")] :
        r \in typed_required}
create_imap_action_defaults ==
    [port |-> Some(DefaultImapPort), ssl |-> Some(TRUE),
     folder |-> Some(DefaultImapFolder), conditions |-> None,
     position |-> None]
create_imap_action_calls ==
    Calls(imap_required,
          [port |-> {Some(0), Some(143)}, ssl |-> Bools, folder |-> Strs,
           conditions |-> Dicts, position |-> Positions])
create_imap_action(b) ==
    typed_action(b, "Agents::IMAPAgent",
        ("host" :> b.host) @@ ("username" :> b.username)
        @@ ("password" :> b.password) @@ ("port" :> b.port)
        @@ ("ssl" :> b.ssl) @@ ("folder" :> b.folder)
        @@ IfTruthyDict(b.conditions, "conditions"))

send_to_story_required ==
    {r @@ [target_story_id |-> Some(9)] : r \in typed_required}
create_send_to_story_action_defaults == [payload |-> None, position |-> None]
create_send_to_story_action_calls ==
    Calls(send_to_story_required, [payload |-> Dicts, position |-> Positions])
create_send_to_story_action(b) ==
    typed_action(b, "Agents::SendToStoryAgent",
        ("story_id" :> b.target_story_id)
        @@ IfTruthyDict(b.payload, "payload"))

trigger_required ==
    {r @@ [rules |-> rs] : r \in typed_required,
                          rs \in {Some(<<>>), Some(<<"rule">>)}}
create_trigger_action_defaults == [message |-> None, position |-> None]
create_trigger_action_calls ==
    Calls(trigger_required, [message |-> Strs, position |-> Positions])
create_trigger_action(b) ==
    typed_action(b, "Agents::TriggerAgent",
        ("rules" :> b.rules) @@ IfTruthyStr(b.message, "message"))

group_required ==
    {r @@ [group_story_id |-> Some(9)] : r \in typed_required}
create_group_action_defaults == [position |-> None]
create_group_action_calls == Calls(group_required, [position |-> Positions])
create_group_action(b) ==
    typed_action(b, "Agents::GroupAgent", "group_story_id" :> b.group_story_id)

llm_required == {r @@ [prompt |-> Some("p")] : r \in typed_required}
create_llm_action_defaults == [json_mode |-> Some(FALSE), position |-> None]
create_llm_action_calls ==
    Calls(llm_required, [json_mode |-> Bools, position |-> Positions])
create_llm_action(b) ==
    typed_action(b, "Agents::LLMAgent",
        ("prompt" :> b.prompt) @@ ("json_mode" :> b.json_mode))

update_action_defaults ==
    [name |-> None, options |-> None, position |-> None, draft_id |-> None]
update_action_calls ==
    Calls({[story_id |-> Some(s), action_id |-> Some(3)] : s \in StoryIds},
          [name |-> Strs, options |-> Dicts, position |-> Positions,
           draft_id |-> Ints])
update_action(b) ==
    Descriptor("PUT", "actions/" \o ToString(Val(b.action_id)),
        Some(IfTruthyStr(b.name, "name") @@ IfTruthyDict(b.options, "options")
             @@ IfTruthyDict(b.position, "position")
             @@ IfTruthyInt(b.draft_id, "draft_id")),
        None)

delete_action_calls ==
    {[story_id |-> Some(s), action_id |-> Some(3)] : s \in StoryIds}
delete_action(b) ==
    Descriptor("DELETE", "actions/" \o ToString(Val(b.action_id)), None, None)

----------------------------------------------------------------------------
(* Drafts and notes: src/main.py 879-901, 937-1083 *)

list_story_drafts_calls == {[story_id |-> Some(s)] : s \in StoryIds}
list_story_drafts(b) ==
    Descriptor("GET", list_story_drafts_endpoint(b), None, None)

get_story_draft_calls ==
    {[story_id |-> Some(s), draft_id |-> d] : s \in StoryIds, d \in Ints}
get_story_draft(b) ==
    Descriptor("GET",
        "stories/" \o ToString(Val(b.story_id)) \o "/drafts/"
        \o ToString(Val(b.draft_id)), None, None)

DefaultNoteX == 0
DefaultNoteY == 0
default_note_position ==
    ("x" :> Some(DefaultNoteX)) @@ ("y" :> Some(DefaultNoteY))

create_note_defaults ==
    [story_id |-> None, group_id |-> None, position |-> None,
     draft_id |-> None]
create_note_calls ==
    Calls({[content |-> c] : c \in Strs},
          [story_id |-> Ints, group_id |-> Ints, position |-> Positions,
           draft_id |-> Ints])

\* if not story_id and not group_id: raise ValueError(...)
create_note_invalid_never(b) == FALSE
create_note_invalid(b) == ~TruthyInt(b.story_id) /\ ~TruthyInt(b.group_id)

create_note(b) ==
    Descriptor("POST", "notes",
        Some(("content" :> b.content)
             @@ IfTruthyInt(b.story_id, "story_id")
             @@ IfTruthyInt(b.group_id, "group_id")
             @@ (IF TruthyDict(b.position) THEN "position" :> b.position
                 ELSE "position" :> Some(default_note_position))
             @@ IfTruthyInt(b.draft_id, "draft_id")),
        None)

get_note_calls == {[note_id |-> Some(4)]}
get_note(b) ==
    Descriptor("GET", "notes/" \o ToString(Val(b.note_id)), None, None)

update_note_defaults == [content |-> None, position |-> None]
update_note_calls ==
    Calls({[note_id |-> Some(4)]}, [content |-> Strs, position |-> Positions])
update_note_data_truthy(b) ==
    IfTruthyStr(b.content, "content") @@ IfTruthyDict(b.position, "position")
update_note_data(b) ==
    IfSet(b.content, "content") @@ IfSet(b.position, "position")
\* if not data: raise ValueError(...)
update_note_invalid(b) == DOMAIN update_note_data(b) = {}
update_note(b) ==
    Descriptor("PUT", "notes/" \o ToString(Val(b.note_id)),
        Some(update_note_data(b)), None)

list_notes_defaults ==
    [story_id |-> None, group_id |-> None, team_id |-> None, mode |-> None,
     draft_id |-> None, per_page |-> None, page |-> None]
list_notes_calls ==
    Calls({EmptyDict},
          [story_id |-> Ints, group_id |-> Ints, team_id |-> Ints,
           mode |-> {Some("LIVE")}, draft_id |-> Ints, per_page |-> PerPages,
           page |-> Ints])
\* one "k=v" of the query string, "" when the parameter is None
QueryInt(x, k) == IF x # None THEN <<k \o "=" \o ToString(Val(x))>> ELSE <<>>
QueryStr(x, k) == IF x # None THEN <<k \o "=" \o Val(x)>> ELSE <<>>
RECURSIVE Join(_, _)
Join(parts, sep) ==
    IF parts = <<>> THEN ""
    ELSE IF Len(parts) = 1 THEN parts[1]
    ELSE parts[1] \o sep \o Join(Tail(parts), sep)
list_notes(b) ==
    LET query_string ==
            Join(QueryInt(b.story_id, "story_id")
                 \o QueryInt(b.group_id, "group_id")
                 \o QueryInt(b.team_id, "team_id") \o QueryStr(b.mode, "mode")
                 \o QueryInt(b.draft_id, "draft_id")
                 \o QueryInt(b.per_page, "per_page")
                 \o QueryInt(b.page, "page"), "&")
    IN  Descriptor("GET",
            IF query_string # "" THEN "notes?" \o query_string ELSE "notes",
            None, None)

delete_note_calls == {[note_id |-> Some(4)]}
delete_note(b) ==
    Descriptor("DELETE", "notes/" \o ToString(Val(b.note_id)), None, None)
\* return {"deleted": True, "note_id": note_id}
delete_note_return(b) == ("deleted" :> Some(TRUE)) @@ ("note_id" :> b.note_id)

----------------------------------------------------------------------------
(* The state after start-up: no invocation yet; the remote holds, for each *)
(* target action, a configuration with or without a "sources" list (its    *)
(* links, each source at most once).                                       *)

InitialSources == {<<>>} \cup {<<i>> : i \in SourceIds}
InitialActions ==
    {"name" :> Some("action")}
    \cup {("name" :> Some("action")) @@ ("sources" :> Some(l)) :
             l \in InitialSources}

\* a string as the sequence of its slashes and its slash-free runs
ExampleBaseUrl == <<"https:", "/", "/", "tenant.tines.com", "/", "api", "/", "v1">>

\* the server once the module is loaded with TINES_API_URL = base
Loaded(base) ==
    /\ BASE_URL = base
    /\ pc = [p \in Tasks |-> "idle"]
    /\ tool = [p \in Tasks |-> "none"]
    /\ args = [p \in Tasks |-> EmptyDict]
    /\ loc = [p \in Tasks |-> EmptyDict]
    /\ reqs = [p \in Tasks |-> <<>>]
    /\ result = [p \in Tasks |-> NoResult]
    /\ actions \in [TargetIds -> InitialActions]
    /\ hist = <<>>
    /\ seen = [p \in Tasks |-> 0]
    /\ ncalls = 0

Init == Loaded(ExampleBaseUrl)

----------------------------------------------------------------------------
(* Invocations *)

ConnectArgs ==
    {[story_id |-> Some(s), source_action_id |-> Some(src),
      target_action_id |-> Some(t), source_output |-> None, draft_id |-> d] :
        s \in StoryIds, src \in SourceIds, t \in TargetIds,
        d \in {None} \cup {Some(i) : i \in DraftIds}}

DraftArgs == {[story_id |-> Some(s)] : s \in StoryIds}

\* the host invokes a tool with arguments a on a task that runs none
Begin(p, name, a) ==
    /\ pc[p] \in {"idle", "done"}
    /\ ncalls < MaxCalls
    /\ tool' = [tool EXCEPT ![p] = name]
    /\ args' = [args EXCEPT ![p] = a]
    /\ ncalls' = ncalls + 1
    /\ UNCHANGED BASE_URL

\* the invocation ends: what it returns or raises is its result
Finish(p, r) ==
    /\ pc' = [pc EXCEPT ![p] = "done"]
    /\ result' = [result EXCEPT ![p] = r]
    /\ loc' = [loc EXCEPT ![p] = EmptyDict]

\* the invocation's first request, and a later one
First_again(p, rq) == reqs' = [reqs EXCEPT ![p] = <<rq, rq>>]
First(p, rq) == reqs' = [reqs EXCEPT ![p] = <<rq>>]
Log(p, rq) == reqs' = [reqs EXCEPT ![p] = Append(@, rq)]

----------------------------------------------------------------------------
(* connect_actions, request by request *)

\* target_action = make_request("GET", f"actions/{target_action_id}")
connect_actions_get(p) ==
    /\ \E a \in ConnectArgs, k \in AnswerKinds :
        LET t == Val(a.target_action_id)
            out == make_request(Answers(actions[t])[k])
        IN  /\ Begin(p, "connect_actions", a)
            /\ First(p, Request("GET", connect_actions_endpoint(a),
                                None, None, Answers(actions[t])[k]))
            /\ IF out.raised = ""
               THEN /\ pc' = [pc EXCEPT ![p] = "ca_put"]
                    /\ loc' = [loc EXCEPT ![p] = Val(out.value)]
                    /\ result' = [result EXCEPT ![p] = NoResult]
                    /\ seen' = [seen EXCEPT ![p] = Len(hist)]
               ELSE /\ Finish(p, Propagate(out))
                    /\ UNCHANGED seen
    /\ UNCHANGED <<actions, hist>>

\* return make_request("PUT", f"actions/{target_action_id}", data=data)
connect_actions_put(p) ==
    /\ pc[p] = "ca_put"
    /\ \E k \in AnswerKinds :
        LET t == Val(args[p].target_action_id)
            data == connect_actions_data(loc[p], args[p])
            updated == RemoteUpdateAction(actions[t], data)
            response == Answers(updated)[k]
            out == make_request(response)
            applied == response.conn /\ response.status < 400
        IN  /\ Log(p, Request("PUT", connect_actions_endpoint(args[p]),
                              Some(data), None, response))
            /\ Finish(p, IF out.raised = "" THEN Success(Val(out.value))
                         ELSE Propagate(out))
            /\ actions' = IF applied THEN [actions EXCEPT ![t] = updated]
                          ELSE actions
            /\ hist' = IF applied
                       THEN Append(hist,
                                [tgt |-> t,
                                 src |-> Val(args[p].source_action_id),
                                 seen |-> seen[p],
                                 list |-> Val(data.source_ids),
                                 ok |-> out.raised = ""])
                       ELSE hist
    /\ UNCHANGED <<tool, args, seen, ncalls, BASE_URL>>

----------------------------------------------------------------------------
(* create_story_draft, request by request *)

\* make_request("PUT", f"stories/{story_id}", data={"add_tag_names": [...]})
create_story_draft_add(p) ==
    /\ \E a \in DraftArgs, k \in AnswerKinds :
        LET out == make_request(Answers("id" :> a.story_id)[k])
        IN  /\ Begin(p, "create_story_draft", a)
            /\ First(p, Request("PUT", story_endpoint(a),
                                Some(add_tag_data), None,
                                Answers("id" :> a.story_id)[k]))
            /\ IF out.raised = ""
               THEN /\ pc' = [pc EXCEPT ![p] = "cd_list"]
                    /\ loc' = [loc EXCEPT ![p] = EmptyDict]
                    /\ result' = [result EXCEPT ![p] = NoResult]
               ELSE Finish(p, Propagate(out))
    /\ UNCHANGED <<actions, hist, seen>>

\* drafts = list_story_drafts(story_id), then the test of drafts.get("drafts")
create_story_draft_list(p) ==
    /\ pc[p] = "cd_list"
    /\ \E k \in AnswerKinds, l \in 1..Len(DraftListings) :
        LET out == make_request(Answers(DraftListings[l])[k])
        IN  /\ Log(p, Request("GET", list_story_drafts_endpoint(args[p]),
                              None, None, Answers(DraftListings[l])[k]))
            /\ IF out.raised = ""
               THEN LET nxt == after_list(Val(out.value))
                    IN  /\ pc' = [pc EXCEPT ![p] = nxt.next]
                        /\ loc' = [loc EXCEPT ![p] =
                                      IF nxt.next = "done" THEN EmptyDict
                                      ELSE nxt.latest]
                        /\ result' = [result EXCEPT ![p] = nxt.result]
               ELSE Finish(p, Propagate(out))
    /\ UNCHANGED <<tool, args, actions, hist, seen, ncalls, BASE_URL>>

\* make_request("PUT", f"stories/{story_id}", data={"remove_tag_names": [...],
\* "draft_id": latest_draft["id"]}); return latest_draft
create_story_draft_remove(p) ==
    /\ pc[p] = "cd_remove"
    /\ \E k \in AnswerKinds :
        LET out == make_request(Answers("id" :> args[p].story_id)[k])
        IN  /\ Log(p, Request("PUT", story_endpoint(args[p]),
                              Some(remove_tag_data(loc[p])), None,
                              Answers("id" :> args[p].story_id)[k]))
            /\ Finish(p, after_remove(loc[p], out))
    /\ UNCHANGED <<tool, args, actions, hist, seen, ncalls, BASE_URL>>

----------------------------------------------------------------------------
(* The workflow composer under concurrent dispatch *)

Next ==
    \E p \in Tasks :
        \/ connect_actions_get(p)
        \/ connect_actions_put(p)
        \/ create_story_draft_add(p)
        \/ create_story_draft_list(p)
        \/ create_story_draft_remove(p)

Spec == Init /\ [][Next]_vars

----------------------------------------------------------------------------
(* The single-request tools, each run from its call to its return *)

ResponseJson == "id" :> Some(1)

\* return make_request(...): the response's json, or the error raised
Single(p, name, a, rq) ==
    \E k \in AnswerKinds :
        LET out == make_request(Answers(ResponseJson)[k])
        IN  /\ Begin(p, name, a)
            /\ First(p, Request(rq.method, rq.endpoint, rq.data, rq.params,
                                Answers(ResponseJson)[k]))
            /\ Finish(p, IF out.raised = "" THEN Success(Val(out.value))
                         ELSE Propagate(out))
            /\ UNCHANGED <<actions, hist, seen>>

\* an exception raised before any request
Raise(p, name, a, exc) ==
    /\ Begin(p, name, a)
    /\ reqs' = [reqs EXCEPT ![p] = <<>>]
    /\ Finish(p, Failure(exc))
    /\ UNCHANGED <<actions, hist, seen>>

\* no tool has been called yet
NoCallYet == ncalls = 0

tool_list_stories(p) ==
    /\ NoCallYet
    /\ \E a \in list_stories_calls :
        /\ Single(p, "list_stories", a, list_stories(Bind(a, list_stories_defaults)))

tool_search_stories(p) ==
    /\ NoCallYet
    /\ \E a \in search_stories_calls :
        /\ Single(p, "search_stories", a, search_stories(Bind(a, preset_defaults)))

tool_get_high_priority_stories(p) ==
    /\ NoCallYet
    /\ \E a \in get_high_priority_stories_calls :
        /\ Single(p, "get_high_priority_stories", a,
                  get_high_priority_stories(Bind(a, preset_defaults)))

tool_get_disabled_stories(p) ==
    /\ NoCallYet
    /\ \E a \in get_disabled_stories_calls :
        /\ Single(p, "get_disabled_stories", a,
                  get_disabled_stories(Bind(a, preset_defaults)))

tool_get_story(p) ==
    /\ NoCallYet
    /\ \E a \in get_story_calls :
        /\ Single(p, "get_story", a, get_story(Bind(a, get_story_defaults)))

tool_create_story(p) ==
    /\ NoCallYet
    /\ \E a \in create_story_calls :
        /\ Single(p, "create_story", a, create_story(Bind(a, create_story_defaults)))

tool_update_story(p) ==
    /\ NoCallYet
    /\ \E a \in update_story_calls :
        /\ Single(p, "update_story", a, update_story(Bind(a, update_story_defaults)))

tool_get_story_actions(p) ==
    /\ NoCallYet
    /\ \E a \in get_story_actions_calls :
        /\ Single(p, "get_story_actions", a,
                  get_story_actions(Bind(a, get_story_actions_defaults)))

tool_create_action(p) ==
    /\ NoCallYet
    /\ \E a \in create_action_calls :
        /\ Single(p, "create_action", a,
                  create_action(Bind(a, create_action_defaults)))

tool_create_event_transform_action(p) ==
    /\ NoCallYet
    /\ \E a \in create_event_transform_action_calls :
        /\ Single(p, "create_event_transform_action", a,
                  create_event_transform_action(
                      Bind(a, create_event_transform_action_defaults)))

tool_create_webhook_action(p) ==
    /\ NoCallYet
    /\ \E a \in create_webhook_action_calls :
        /\ Single(p, "create_webhook_action", a,
                  create_webhook_action(Bind(a, create_webhook_action_defaults)))

tool_create_email_action(p) ==
    /\ NoCallYet
    /\ \E a \in create_email_action_calls :
        /\ Single(p, "create_email_action", a,
                  create_email_action(Bind(a, create_email_action_defaults)))

tool_create_imap_action(p) ==
    /\ NoCallYet
    /\ \E a \in create_imap_action_calls :
        /\ Single(p, "create_imap_action", a,
                  create_imap_action(Bind(a, create_imap_action_defaults)))

tool_create_send_to_story_action(p) ==
    /\ NoCallYet
    /\ \E a \in create_send_to_story_action_calls :
        /\ Single(p, "create_send_to_story_action", a,
                  create_send_to_story_action(
                      Bind(a, create_send_to_story_action_defaults)))

tool_create_trigger_action(p) ==
    /\ NoCallYet
    /\ \E a \in create_trigger_action_calls :
        /\ Single(p, "create_trigger_action", a,
                  create_trigger_action(Bind(a, create_trigger_action_defaults)))

tool_create_group_action(p) ==
    /\ NoCallYet
    /\ \E a \in create_group_action_calls :
        /\ Single(p, "create_group_action", a,
                  create_group_action(Bind(a, create_group_action_defaults)))

tool_create_llm_action(p) ==
    /\ NoCallYet
    /\ \E a \in create_llm_action_calls :
        /\ Single(p, "create_llm_action", a,
                  create_llm_action(Bind(a, create_llm_action_defaults)))

tool_update_action(p) ==
    /\ NoCallYet
    /\ \E a \in update_action_calls :
        /\ Single(p, "update_action", a,
                  update_action(Bind(a, update_action_defaults)))

tool_delete_action(p) ==
    /\ NoCallYet
    /\ \E a \in delete_action_calls :
        /\ Single(p, "delete_action", a, delete_action(a))

tool_list_story_drafts(p) ==
    /\ NoCallYet
    /\ \E a \in list_story_drafts_calls :
        /\ Single(p, "list_story_drafts", a, list_story_drafts(a))

tool_get_story_draft(p) ==
    /\ NoCallYet
    /\ \E a \in get_story_draft_calls :
        /\ Single(p, "get_story_draft", a, get_story_draft(a))

tool_create_note(p) ==
    /\ NoCallYet
    /\ \E a \in create_note_calls :
        /\ LET b == Bind(a, create_note_defaults)
           IN  IF create_note_invalid(b)
               THEN Raise(p, "create_note", a, "ValueError")
               ELSE Single(p, "create_note", a, create_note(b))

tool_get_note(p) ==
    /\ NoCallYet
    /\ \E a \in get_note_calls :
        /\ Single(p, "get_note", a, get_note(a))

tool_update_note(p) ==
    /\ NoCallYet
    /\ \E a \in update_note_calls :
        /\ LET b == Bind(a, update_note_defaults)
           IN  IF update_note_invalid(b)
               THEN Raise(p, "update_note", a, "ValueError")
               ELSE Single(p, "update_note", a, update_note(b))

tool_list_notes(p) ==
    /\ NoCallYet
    /\ \E a \in list_notes_calls :
        /\ Single(p, "list_notes", a, list_notes(Bind(a, list_notes_defaults)))

\* make_request("DELETE", ...), then return {"deleted": True, "note_id": ...}
tool_delete_note(p) ==
    \E a \in delete_note_calls, k \in AnswerKinds :
        /\ NoCallYet
        /\ LET rq == delete_note(a)
               out == make_request(Answers(ResponseJson)[k])
           IN  /\ Begin(p, "delete_note", a)
               /\ First(p, Request(rq.method, rq.endpoint, rq.data, rq.params,
                                Answers(ResponseJson)[k]))
               /\ Finish(p, IF out.raised = "" THEN Success(delete_note_return(a))
                            ELSE Propagate(out))
               /\ UNCHANGED <<actions, hist, seen>>

\* One tool call on a server that has run none: the parameter mapper and the
\* request executor on every call of the bounded argument sets.
MapNext ==
    \E p \in Tasks :
        \/ tool_list_stories(p)
        \/ tool_search_stories(p)
        \/ tool_get_high_priority_stories(p)
        \/ tool_get_disabled_stories(p)
        \/ tool_get_story(p)
        \/ tool_create_story(p)
        \/ tool_update_story(p)
        \/ tool_get_story_actions(p)
        \/ tool_create_action(p)
        \/ tool_create_event_transform_action(p)
        \/ tool_create_webhook_action(p)
        \/ tool_create_email_action(p)
        \/ tool_create_imap_action(p)
        \/ tool_create_send_to_story_action(p)
        \/ tool_create_trigger_action(p)
        \/ tool_create_group_action(p)
        \/ tool_create_llm_action(p)
        \/ tool_update_action(p)
        \/ tool_delete_action(p)
        \/ tool_list_story_drafts(p)
        \/ tool_get_story_draft(p)
        \/ tool_create_note(p)
        \/ tool_get_note(p)
        \/ tool_update_note(p)
        \/ tool_list_notes(p)
        \/ tool_delete_note(p)

MapSpec == Init /\ [][MapNext]_vars

----------------------------------------------------------------------------
(* The URL of a request, for the base URLs and endpoints a caller may give *)

RECURSIVE Slashes(_)
Slashes(n) == IF n = 0 THEN <<>> ELSE <<"/">> \o Slashes(n - 1)

\* base URLs ending in 0..MaxSlashes slashes, endpoints beginning with as many
BaseUrls == {ExampleBaseUrl \o Slashes(n) : n \in 0..MaxSlashes}
Endpoints ==
    {Slashes(n) \o rest :
        n \in 0..MaxSlashes,
        rest \in {<<>>, <<"stories">>, <<"stories", "/">>,
                  <<"stories", "/", "42">>}}

UrlInit == \E base \in BaseUrls : Loaded(base)

\* debug_endpoint(endpoint): make_request("GET", endpoint), the outcome
\* wrapped in a dict
debug_endpoint(p) ==
    \E endpoint \in Endpoints, k \in AnswerKinds :
        LET response == Answers(ResponseJson)[k]
            out == make_request(response)
        IN  /\ Begin(p, "debug_endpoint", "endpoint" :> Some(endpoint))
            /\ First(p, ("url" :> url(BASE_URL, endpoint))
                        @@ Request("GET", endpoint, None, None, response))
            /\ Finish(p, Success(
                   IF out.raised = ""
                   THEN ("success" :> Some(TRUE)) @@ ("data" :> out.value)
                   ELSE ("success" :> Some(FALSE))
                        @@ ("error" :> Some(out.raised))))
            /\ UNCHANGED <<actions, hist, seen>>

UrlNext == \E p \in Tasks : debug_endpoint(p)

UrlSpec == UrlInit /\ [][UrlNext]_vars

----------------------------------------------------------------------------
(* Properties of create_story_draft *)

Drafting(p) == tool[p] = "create_story_draft"

\* the listing returned to p's draft-list GET holds no draft
EmptyListing(p) ==
    /\ Len(reqs[p]) >= 2
    /\ reqs[p][2].ok
    /\ LET body == Val(reqs[p][2].value)
       IN  "drafts" \notin DOMAIN body \/ body["drafts"] = Some(<<>>)

\* C1: when the add-tag PUT succeeds and the draft-list GET returns an empty
\* or missing drafts list, create_story_draft fails with the draft-creation
\* error (ValueError "No draft was created") and has issued no tag-removal
\* PUT: the invocation's requests are those two only.
C1_EmptyListingFails ==
    \A p \in Tasks :
        (Drafting(p) /\ EmptyListing(p)) =>
            /\ pc[p] = "done"
            /\ result[p].status = "error"
            /\ result[p].exc = "ValueError"
            /\ Len(reqs[p]) = 2
            /\ reqs[p][1].ok

C1_Witness ==
    \E p \in Tasks :
        /\ Drafting(p) /\ EmptyListing(p)
        /\ reqs[p][1].method = "PUT" /\ reqs[p][1].ok
        /\ result[p].exc = "ValueError"

\* C2: when the add-tag PUT and the draft-list GET succeed and the
\* tag-removal PUT fails, the invocation ends in an error (the one the
\* request raised) and does not return the draft.
C2_RemovalFailureSurfaces ==
    \A p \in Tasks :
        (Drafting(p) /\ Len(reqs[p]) = 3 /\ ~reqs[p][3].ok) =>
            /\ pc[p] = "done"
            /\ result[p].status = "error"
            /\ result[p].exc \in {"HTTPError", "ConnectionError", "JSONDecodeError"}
            /\ result[p].value = None

C2_Witness ==
    \E p \in Tasks :
        /\ Drafting(p) /\ Len(reqs[p]) = 3
        /\ reqs[p][1].ok /\ reqs[p][2].ok /\ ~reqs[p][3].ok
        /\ result[p].status = "error" /\ result[p].exc = "HTTPError"

\* C3: a successful create_story_draft(story_id) has issued exactly three
\* requests, in this order: PUT stories/{story_id} adding the tag
\* draft-creation, GET stories/{story_id}/drafts, PUT stories/{story_id}
\* removing the tag with draft_id the id of the draft it returns.
C3_ThreeRequestsScoped ==
    \A p \in Tasks :
        (Drafting(p) /\ result[p].status = "ok") =>
            LET story == "stories/" \o ToString(Val(args[p].story_id))
                r == reqs[p]
            IN  /\ Len(r) = 3
                /\ r[1].method = "PUT" /\ r[1].endpoint = story
                /\ r[1].data = Some("add_tag_names" :> Some(<<"draft-creation">>))
                /\ r[2].method = "GET" /\ r[2].endpoint = story \o "/drafts"
                /\ r[2].data = None
                /\ r[3].method = "PUT" /\ r[3].endpoint = story
                /\ DOMAIN Val(r[3].data) = {"remove_tag_names", "draft_id"}
                /\ Val(r[3].data)["remove_tag_names"] = Some(<<"draft-creation">>)
                /\ Val(r[3].data)["draft_id"] # None
                /\ Val(r[3].data)["draft_id"] = Val(result[p].value)["id"]

C3_Witness ==
    \E p \in Tasks :
        /\ Drafting(p) /\ result[p].status = "ok"
        /\ Val(result[p].value)["id"] = Some(8)

----------------------------------------------------------------------------
(* Properties of connect_actions *)

\* write j to a target directly follows write i to it, and was computed from
\* a GET answered after write i: the two ran in sequence, no writer between
InSequence(i, j) ==
    /\ i < j
    /\ hist[i].tgt = hist[j].tgt
    /\ \A k \in (i+1)..(j-1) : hist[k].tgt # hist[j].tgt
    /\ hist[j].seen >= i

\* C4: connect_actions is idempotent: every list it writes holds its source
\* id exactly once, the remote's list is the list last written, and a call
\* that follows in sequence (no other writer) a call with the same source
\* and target writes the same list.
C4_Idempotent ==
    /\ \A j \in 1..Len(hist) :
        /\ Count(hist[j].list, hist[j].src) = 1
        /\ \A i \in 1..(j-1) :
            (InSequence(i, j) /\ hist[i].src = hist[j].src) =>
                hist[j].list = hist[i].list
    /\ \A t \in TargetIds :
        \A j \in 1..Len(hist) :
            (hist[j].tgt = t /\ \A k \in (j+1)..Len(hist) : hist[k].tgt # t) =>
                /\ actions[t]["sources"] = Some(hist[j].list)
                /\ Count(Val(actions[t]["sources"]), hist[j].src) = 1

\* two calls in sequence with the same source and target, both successful,
\* the first of which added the source id
C4_Witness ==
    /\ Len(hist) = 2
    /\ InSequence(1, 2)
    /\ hist[1].src = hist[2].src
    /\ hist[1].ok /\ hist[2].ok
    /\ Len(hist[1].list) = 2
    /\ hist[1].list[2] = hist[1].src

\* C5: connect_actions has a lost-update race.  Witness: two invocations on
\* the same target with different source ids both return success and the
\* target's list lacks one of the two ids.  A written list lacks a source id
\* written before it only when a write in between (or that write itself)
\* worked from a GET answered before the id was written: the loss comes
\* from the unlocked GET-then-PUT interleaving, and only from it.
C5_LossOnlyByInterleaving ==
    \A j \in 1..Len(hist) :
        \A i \in 1..(j-1) :
            (hist[i].tgt = hist[j].tgt /\ ~Contains(hist[j].list, hist[i].src))
                => \E m \in (i+1)..j :
                       hist[m].tgt = hist[j].tgt /\ hist[m].seen < i

C5_LostUpdate ==
    \E p \in Tasks, q \in Tasks :
        /\ p # q
        /\ tool[p] = "connect_actions" /\ tool[q] = "connect_actions"
        /\ pc[p] = "done" /\ pc[q] = "done"
        /\ result[p].status = "ok" /\ result[q].status = "ok"
        /\ args[p].target_action_id = args[q].target_action_id
        /\ args[p].source_action_id # args[q].source_action_id
        /\ ~Contains(Val(actions[Val(args[p].target_action_id)]["sources"]),
                     Val(args[p].source_action_id))

----------------------------------------------------------------------------
(* Properties of the parameter mapping, on one tool call (MapSpec) *)

\* task p called a tool that has returned or raised
Called(p, name) == tool[p] = name /\ pc[p] = "done"

\* the caller passed parameter k (with a value, not None)
Supplied(p, k) == k \in DOMAIN args[p] /\ args[p][k] # None

\* the body of the request, or else its query, as a dict
Outgoing(rq) ==
    IF rq.data # None THEN Val(rq.data)
    ELSE IF rq.params # None THEN Val(rq.params)
    ELSE EmptyDict

\* C6: create_note called with neither story_id nor group_id fails with a
\* validation error (ValueError) and issues no HTTP request.
C6_NoteNeedsOwner ==
    \A p \in Tasks :
        (Called(p, "create_note") /\ ~Supplied(p, "story_id")
         /\ ~Supplied(p, "group_id")) =>
            /\ result[p].status = "error"
            /\ result[p].exc = "ValueError"
            /\ reqs[p] = <<>>

C6_Witness ==
    \E p \in Tasks :
        /\ Called(p, "create_note")
        /\ DOMAIN args[p] = {"content"}
        /\ result[p].exc = "ValueError"
        /\ reqs[p] = <<>>

\* C7: update_story(disabled=False) sends a body with disabled: false, and
\* update_story without disabled sends a body with no disabled key.
C7_DisabledFalseSent ==
    \A p \in Tasks :
        Called(p, "update_story") =>
            /\ Len(reqs[p]) = 1
            /\ LET body == Val(reqs[p][1].data)
               IN  /\ ("disabled" \in DOMAIN args[p]
                       /\ args[p]["disabled"] = Some(FALSE)) =>
                          ("disabled" \in DOMAIN body
                           /\ body["disabled"] = Some(FALSE))
                   /\ "disabled" \notin DOMAIN args[p] =>
                          "disabled" \notin DOMAIN body

C7_Witness ==
    \E p \in Tasks :
        /\ Called(p, "update_story")
        /\ DOMAIN args[p] = {"story_id", "disabled"}
        /\ args[p]["disabled"] = Some(FALSE)
        /\ Val(reqs[p][1].data) = ("disabled" :> Some(FALSE))

\* the optional parameters a tool sends under their own names
DirectOptional(name) ==
    CASE name = "list_stories" ->
            {"team_id", "folder_id", "page", "tags", "search", "filter", "order"}
      [] name = "get_story" -> {"story_mode", "draft_id"}
      [] name = "create_story" -> DOMAIN create_story_defaults
      [] name = "update_story" -> DOMAIN update_story_defaults
      [] name = "create_action" -> {"options", "position", "draft_id"}
      [] name = "update_action" -> {"name", "options", "position", "draft_id"}
      [] name = "create_note" -> {"story_id", "group_id", "position", "draft_id"}
      [] name = "update_note" -> {"content", "position"}
      [] OTHER -> {}

\* C8: every optional parameter the caller supplies, falsy or not, is in the
\* outgoing body or query under its remote field name, with its value.
C8_SuppliedIsSent ==
    \A p \in Tasks :
        (pc[p] = "done" /\ Len(reqs[p]) = 1) =>
            \A k \in DirectOptional(tool[p]) :
                Supplied(p, k) =>
                    /\ k \in DOMAIN Outgoing(reqs[p][1])
                    /\ Outgoing(reqs[p][1])[k] = args[p][k]

ListingTools ==
    {"list_stories", "search_stories", "get_high_priority_stories",
     "get_disabled_stories"}

\* C9: the per_page sent by list_stories, called directly or through
\* search_stories, get_high_priority_stories or get_disabled_stories, is
\* min(per_page, 500) for every per_page supplied, so never above 500.
C9_PerPageClamped ==
    \A p \in Tasks :
        (pc[p] = "done" /\ tool[p] \in ListingTools /\ Supplied(p, "per_page")) =>
            /\ Len(reqs[p]) = 1
            /\ LET query == Val(reqs[p][1].params)
                   n == Val(args[p]["per_page"])
               IN  /\ "per_page" \in DOMAIN query
                   /\ query["per_page"] = Some(IF n <= 500 THEN n ELSE 500)
                   /\ Val(query["per_page"]) <= 500

C9_Witness ==
    \E p \in Tasks :
        /\ Called(p, "list_stories")
        /\ args[p] = ("per_page" :> Some(1000))
        /\ Val(reqs[p][1].params) = ("per_page" :> Some(500))

PresetTools ==
    {"search_stories", "get_high_priority_stories", "get_disabled_stories"}

TypedActionTools ==
    {"create_event_transform_action", "create_webhook_action",
     "create_email_action", "create_imap_action",
     "create_send_to_story_action", "create_trigger_action",
     "create_group_action", "create_llm_action"}

\* the parameters of a tool that its signature gives a default
ToolOptional(name) ==
    CASE name = "list_stories" -> DOMAIN list_stories_defaults
      [] name \in PresetTools -> DOMAIN preset_defaults
      [] name = "get_story" -> DOMAIN get_story_defaults
      [] name = "create_story" -> DOMAIN create_story_defaults
      [] name = "update_story" -> DOMAIN update_story_defaults
      [] name = "get_story_actions" -> DOMAIN get_story_actions_defaults
      [] name = "create_action" -> DOMAIN create_action_defaults
      [] name = "create_event_transform_action" ->
            DOMAIN create_event_transform_action_defaults
      [] name = "create_webhook_action" -> DOMAIN create_webhook_action_defaults
      [] name = "create_email_action" -> DOMAIN create_email_action_defaults
      [] name = "create_imap_action" -> DOMAIN create_imap_action_defaults
      [] name = "create_send_to_story_action" ->
            DOMAIN create_send_to_story_action_defaults
      [] name = "create_trigger_action" -> DOMAIN create_trigger_action_defaults
      [] name = "create_group_action" -> DOMAIN create_group_action_defaults
      [] name = "create_llm_action" -> DOMAIN create_llm_action_defaults
      [] name = "update_action" -> DOMAIN update_action_defaults
      [] name = "create_note" -> DOMAIN create_note_defaults
      [] name = "update_note" -> DOMAIN update_note_defaults
      [] name = "list_notes" -> DOMAIN list_notes_defaults
      [] OTHER -> {}

\* the call passed only what the tool requires: no parameter that has a
\* default, and exactly one of the alternatives where one of several is
\* required (the owner of a new note, the field of a note to update)
RequiredOnly(p) ==
    CASE tool[p] = "create_note" ->
            /\ DOMAIN args[p] \cap {"position", "draft_id"} = {}
            /\ Cardinality(DOMAIN args[p] \cap {"story_id", "group_id"}) = 1
      [] tool[p] = "update_note" ->
            Cardinality(DOMAIN args[p] \cap {"content", "position"}) = 1
      [] OTHER -> DOMAIN args[p] \cap ToolOptional(tool[p]) = {}

\* the fields of the body or query that carry required arguments (for a
\* preset, its fixed filter or the search text)
RequiredFields(name) ==
    CASE name = "search_stories" -> {"search"}
      [] name \in {"get_high_priority_stories", "get_disabled_stories"} ->
            {"filter"}
      [] name = "create_story" -> {"team_id"}
      [] name = "create_action" -> {"type", "name", "story_id"}
      [] name \in TypedActionTools ->
            {"type", "name", "story_id", "draft_id", "options"}
      [] name = "create_note" -> {"content", "story_id", "group_id"}
      [] name = "update_note" -> {"content", "position"}
      [] OTHER -> {}

\* the entries of an action's options that carry required arguments
RequiredOptions(name) ==
    CASE name = "create_email_action" -> {"to", "subject", "body"}
      [] name = "create_imap_action" -> {"host", "username", "password"}
      [] name = "create_send_to_story_action" -> {"story_id"}
      [] name = "create_trigger_action" -> {"rules"}
      [] name = "create_group_action" -> {"group_story_id"}
      [] name = "create_llm_action" -> {"prompt"}
      [] OTHER -> {}

\* the defaults a tool puts in the body or query, and in the options
InjectedFields(name) ==
    CASE name \in TypedActionTools \cup {"create_action"} ->
            "position" :> Some(("x" :> Some(100)) @@ ("y" :> Some(100)))
      [] name = "create_note" ->
            "position" :> Some(("x" :> Some(0)) @@ ("y" :> Some(0)))
      [] name \in PresetTools -> "per_page" :> Some(20)
      [] OTHER -> EmptyDict

InjectedOptions(name) ==
    CASE name = "create_email_action" -> "content_type" :> Some("text/html")
      [] name = "create_event_transform_action" -> "mode" :> Some("message")
      [] name = "create_imap_action" ->
            ("port" :> Some(993)) @@ ("ssl" :> Some(TRUE))
            @@ ("folder" :> Some("INBOX"))
      [] name = "create_llm_action" -> "json_mode" :> Some(FALSE)
      [] OTHER -> EmptyDict

\* of these, the three the claim lists
ListedFields(name) ==
    IF name \in PresetTools THEN {} ELSE DOMAIN InjectedFields(name)

ListedOptions(name) ==
    IF name = "create_email_action" THEN {"content_type"} ELSE {}

NoNulls(d) == \A k \in DOMAIN d : d[k] # None

OptionsOf(d) == IF "options" \in DOMAIN d THEN Val(d["options"]) ELSE EmptyDict

\* the two tools that put their query in the endpoint send the bare one
BareEndpoint(p) ==
    /\ tool[p] = "get_story_actions" =>
          reqs[p][1].endpoint =
              "agents?story_id=" \o ToString(Val(args[p]["story_id"]))
    /\ tool[p] = "list_notes" => reqs[p][1].endpoint = "notes"

\* a required-only call has sent its one request
SentRequiredOnly(p) == pc[p] = "done" /\ Len(reqs[p]) = 1 /\ RequiredOnly(p)

\* C10 (as stated): a call with only the required arguments sends a body or
\* query holding only the required fields, no nulls, and no default other
\* than position {x:100,y:100} for actions, position {x:0,y:0} for notes and
\* content_type text/html for email actions.
C10_OnlyListedDefaults ==
    \A p \in Tasks :
        SentRequiredOnly(p) =>
            LET out == Outgoing(reqs[p][1])
            IN  /\ DOMAIN out \subseteq
                      RequiredFields(tool[p]) \cup ListedFields(tool[p])
                /\ DOMAIN OptionsOf(out) \subseteq
                      RequiredOptions(tool[p]) \cup ListedOptions(tool[p])
                /\ NoNulls(out) /\ NoNulls(OptionsOf(out))
                /\ BareEndpoint(p)

\* C10 (amended): a call with only the required arguments sends a body or
\* query holding only the required fields and the defaults of the tool's
\* signature, each with its declared value, and no nulls: position
\* {x:100,y:100} for actions, position {x:0,y:0} for notes, content_type
\* text/html for email actions, and also per_page 20 for the three story
\* presets, mode "message" for event transform actions, port 993, ssl true
\* and folder INBOX for IMAP actions, json_mode false for LLM actions.
C10_OnlyDeclaredDefaults ==
    \A p \in Tasks :
        SentRequiredOnly(p) =>
            LET out == Outgoing(reqs[p][1])
                opts == OptionsOf(out)
                fields == InjectedFields(tool[p])
                options == InjectedOptions(tool[p])
            IN  /\ DOMAIN out \subseteq RequiredFields(tool[p]) \cup DOMAIN fields
                /\ DOMAIN opts \subseteq RequiredOptions(tool[p]) \cup DOMAIN options
                /\ \A k \in DOMAIN fields :
                      k \in DOMAIN out /\ out[k] = fields[k]
                /\ \A k \in DOMAIN options :
                      k \in DOMAIN opts /\ opts[k] = options[k]
                /\ NoNulls(out) /\ NoNulls(opts)
                /\ BareEndpoint(p)

C10_Witness ==
    \E p \in Tasks :
        /\ Called(p, "create_imap_action")
        /\ SentRequiredOnly(p)
        /\ DOMAIN OptionsOf(Outgoing(reqs[p][1])) =
              {"host", "username", "password", "port", "ssl", "folder"}
        /\ "position" \in DOMAIN Outgoing(reqs[p][1])

----------------------------------------------------------------------------
(* Properties of the request executor, on one tool call (MapSpec) *)

\* the answer to a request was a success status with an empty body
EmptySuccess(rq) ==
    /\ rq.answer.conn
    /\ rq.answer.status >= 200 /\ rq.answer.status < 300
    /\ rq.answer.body = None

\* C11: a call answered with a success status and an empty body (204) returns
\* an empty object instead of failing; delete_action and delete_note succeed
\* on a 204.
C11_EmptyBodyReturnsEmpty ==
    \A p \in Tasks :
        (pc[p] = "done" /\ Len(reqs[p]) = 1 /\ EmptySuccess(reqs[p][1])) =>
            /\ result[p].status = "ok"
            /\ tool[p] # "delete_note" => result[p].value = Some(EmptyDict)

\* the last request of task p's invocation
LastRequest(p) == reqs[p][Len(reqs[p])]

\* C12: a call answered with a client/server error status fails with an
\* HTTP error that carries the status code; a call that gets no response
\* fails with a transport error (ConnectionError); the two kinds differ, and
\* neither ends in a successful return.
C12_ErrorsSurface ==
    \A p \in Tasks :
        (pc[p] = "done" /\ Len(reqs[p]) > 0) =>
            LET answer == LastRequest(p).answer
            IN  /\ (answer.conn /\ answer.status >= 400) =>
                      /\ result[p].status = "error"
                      /\ result[p].exc = "HTTPError"
                      /\ result[p].code = answer.status
                /\ ~answer.conn =>
                      /\ result[p].status = "error"
                      /\ result[p].exc = "ConnectionError"
                      /\ result[p].exc # "HTTPError"
                /\ result[p].status = "ok" =>
                      (answer.conn /\ answer.status < 400)

C12_Witness ==
    \E p \in Tasks :
        /\ Called(p, "get_story")
        /\ LastRequest(p).answer = Response(404, None)
        /\ result[p].exc = "HTTPError" /\ result[p].code = 404

\* C14: update_note with neither content nor position fails with a
\* validation error (ValueError) and sends no request; with at least one of
\* them, an empty-string content included, it sends exactly one PUT to
\* notes/{note_id} whose body holds exactly the supplied fields.
C14_UpdateNoteFields ==
    \A p \in Tasks :
        Called(p, "update_note") =>
            LET supplied == {k \in {"content", "position"} : Supplied(p, k)}
            IN  IF supplied = {}
                THEN /\ result[p].status = "error"
                     /\ result[p].exc = "ValueError"
                     /\ reqs[p] = <<>>
                ELSE /\ Len(reqs[p]) = 1
                     /\ reqs[p][1].method = "PUT"
                     /\ reqs[p][1].endpoint =
                            "notes/" \o ToString(Val(args[p]["note_id"]))
                     /\ reqs[p][1].params = None
                     /\ DOMAIN Val(reqs[p][1].data) = supplied
                     /\ \A k \in supplied :
                            Val(reqs[p][1].data)[k] = args[p][k]

C14_Witness ==
    \E p \in Tasks :
        /\ Called(p, "update_note")
        /\ args[p] = ("note_id" :> Some(4)) @@ ("content" :> Some(""))
        /\ Len(reqs[p]) = 1
        /\ Val(reqs[p][1].data) = ("content" :> Some(""))

ActionMutationTools ==
    TypedActionTools \cup {"create_action", "update_action", "connect_actions"}

\* C16: when the caller supplies a draft id to an action-mutation operation
\* (create_action, the typed create_*_action wrappers, update_action,
\* connect_actions), the mutating request carries draft_id equal to the
\* supplied value, for every supplied value.
C16_DraftIdForwarded ==
    \A p \in Tasks :
        (tool[p] \in ActionMutationTools /\ Supplied(p, "draft_id")) =>
            \A i \in 1..Len(reqs[p]) :
                reqs[p][i].method \in {"POST", "PUT"} =>
                    /\ "draft_id" \in DOMAIN Val(reqs[p][i].data)
                    /\ Val(reqs[p][i].data)["draft_id"] = args[p]["draft_id"]

----------------------------------------------------------------------------
(* Properties of the request sequences of the two workflows (Spec) *)

\* the most requests one invocation of a tool makes
RequestsOf(name) ==
    CASE name = "create_story_draft" -> 3
      [] name = "connect_actions" -> 2
      [] OTHER -> 1

\* C13: no operation retries: an invocation's log holds one request per call
\* of the request executor, whatever its outcome, and a failed request is the
\* last request of its invocation, which then fails.
C13_NoRetry ==
    \A p \in Tasks :
        /\ Len(reqs[p]) <= RequestsOf(tool[p])
        /\ \A i \in 1..Len(reqs[p]) :
              ~reqs[p][i].ok =>
                  /\ i = Len(reqs[p])
                  /\ pc[p] = "done"
                  /\ result[p].status = "error"
        /\ \A i \in 1..(Len(reqs[p]) - 1) :
              <<reqs[p][i].method, reqs[p][i].endpoint, reqs[p][i].data>> #
                  <<reqs[p][i+1].method, reqs[p][i+1].endpoint, reqs[p][i+1].data>>

\* the draft listing of a create_story_draft got no response, and nothing
\* was sent after it
C13_Witness ==
    \E p \in Tasks :
        /\ Called(p, "create_story_draft")
        /\ Len(reqs[p]) = 2
        /\ reqs[p][2].method = "GET"
        /\ ~reqs[p][2].answer.conn
        /\ result[p].exc = "ConnectionError"

\* the list a connect_actions invocation fetched, and the list it wrote
Fetched(p) == Val(DictGet(Val(reqs[p][1].value), "sources", Some(<<>>)))
Written(p) == Val(Val(reqs[p][2].data)["source_ids"])

\* C17: the list connect_actions writes back holds every id of the fetched
\* list, in the same order and with the same multiplicity, followed by the
\* new source id at the end if and only if the fetched list did not hold it;
\* nothing is removed or reordered.
C17_AppendIfAbsent ==
    \A p \in Tasks :
        (tool[p] = "connect_actions" /\ Len(reqs[p]) = 2) =>
            LET src == Val(args[p].source_action_id)
            IN  /\ SubSeq(Written(p), 1, Len(Fetched(p))) = Fetched(p)
                /\ IF Contains(Fetched(p), src)
                   THEN Written(p) = Fetched(p)
                   ELSE Written(p) = Fetched(p) \o <<src>>

\* the fetched list held another id, and the new one went behind it
C17_Witness ==
    \E p \in Tasks :
        /\ Called(p, "connect_actions")
        /\ Len(reqs[p]) = 2
        /\ Len(Fetched(p)) = 1
        /\ ~Contains(Fetched(p), Val(args[p].source_action_id))
        /\ Written(p) = Fetched(p) \o <<Val(args[p].source_action_id)>>

\* request i of task p's invocation failed, and the invocation ended there
\* with the error make_request raised
FailedAt(p, i) ==
    /\ Len(reqs[p]) = i
    /\ pc[p] = "done"
    /\ result[p].status = "error"
    /\ result[p].exc = make_request(reqs[p][i].answer).raised
    /\ result[p].code = make_request(reqs[p][i].answer).code

\* C18: in create_story_draft, if the add-tag PUT fails, neither the draft
\* listing nor the tag removal is requested and the error propagates; if the
\* draft listing fails, the tag removal is never requested (the tag added by
\* the first request stays, with no compensating request).
C18_NoCompensation ==
    \A p \in Tasks :
        Drafting(p) =>
            /\ (Len(reqs[p]) >= 1 /\ ~reqs[p][1].ok) => FailedAt(p, 1)
            /\ (Len(reqs[p]) >= 2 /\ ~reqs[p][2].ok) =>
                  /\ FailedAt(p, 2)
                  /\ reqs[p][1].ok
                  /\ reqs[p][1].data =
                        Some("add_tag_names" :> Some(<<"draft-creation">>))
                  /\ \A i \in 1..Len(reqs[p]) :
                        reqs[p][i].data # None =>
                            "remove_tag_names" \notin DOMAIN Val(reqs[p][i].data)

\* the tag was added, the draft listing was answered 404, nothing followed
C18_Witness ==
    \E p \in Tasks :
        /\ Drafting(p)
        /\ Len(reqs[p]) = 2
        /\ reqs[p][1].ok
        /\ reqs[p][2].answer = Response(404, None)
        /\ FailedAt(p, 2)
        /\ result[p].exc = "HTTPError"

\* the request got no response or an error status
Unanswered(rq) == ~rq.answer.conn \/ rq.answer.status >= 400

\* task p is between the answered GET and the PUT of a connect_actions
AfterGet(p) ==
    /\ tool[p] = "connect_actions"
    /\ Len(reqs[p]) = 1
    /\ reqs[p][1].method = "GET"
    /\ reqs[p][1].ok /\ ~Unanswered(reqs[p][1])

\* C19: in connect_actions, if the GET of the target fails, no PUT is sent
\* and the invocation leaves the target's list as it is; a PUT is only sent
\* after a successful GET of the same target in the same invocation.
C19_PutOnlyAfterGet ==
    /\ [](\A p \in Tasks :
            tool[p] = "connect_actions" =>
                /\ (Len(reqs[p]) >= 1 /\ Unanswered(reqs[p][1])) =>
                      FailedAt(p, 1)
                /\ \A i \in 1..Len(reqs[p]) :
                      reqs[p][i].method = "PUT" =>
                          /\ i = 2
                          /\ reqs[p][1].method = "GET"
                          /\ reqs[p][1].ok /\ ~Unanswered(reqs[p][1])
                          /\ reqs[p][1].endpoint = reqs[p][2].endpoint)
    /\ [][actions' # actions =>
            \E p \in Tasks : AfterGet(p) /\ Len(reqs'[p]) = 2]_vars

\* the GET got no response: one request, an error, and no write anywhere
C19_Witness ==
    \E p \in Tasks :
        /\ Called(p, "connect_actions")
        /\ Len(reqs[p]) = 1
        /\ ~reqs[p][1].answer.conn
        /\ FailedAt(p, 1)
        /\ hist = <<>>

----------------------------------------------------------------------------
(* Properties of the URL of a request (UrlSpec) *)

\* s without its last character if that is c, and without its first
StripOneTrailing(s, c) ==
    IF s # <<>> /\ s[Len(s)] = c THEN SubSeq(s, 1, Len(s) - 1) ELSE s

StripOneLeading(s, c) ==
    IF s # <<>> /\ s[1] = c THEN SubSeq(s, 2, Len(s)) ELSE s

\* C15: the URL of a request is the base URL without exactly one trailing
\* slash, a single '/', and the endpoint without exactly one leading slash,
\* for every base URL and endpoint, several slashes included.
C15_StripsOneSlash ==
    \A p \in Tasks :
        Called(p, "debug_endpoint") =>
            reqs[p][1].url =
                StripOneTrailing(BASE_URL, "/") \o <<"/">>
                \o StripOneLeading(Val(args[p]["endpoint"]), "/")

====
